---- MODULE Spec2Model ----
(***************************************************************************)
(* Instance resolution of the Triton cloud provider                        *)
(* (pkg/cloudprovider/providers/triton).  The state is the provider's      *)
(* cached Metadata, the account's machines as the cloud holds them, and    *)
(* the outcome of the most recent call on the Instances interface together *)
(* with the directory calls that call made.  Spec is the provider after    *)
(* construction, SpecStartup its registration callback (readConfig, then   *)
(* newTriton with initMetadata), SpecConcurrent the provider under calls   *)
(* from several goroutines at once.                                        *)
(***************************************************************************)
EXTENDS Naturals, Sequences, FiniteSets

VARIABLES
    Metadata,   \* Triton.Metadata: [UUID, Hostname], set once by newTriton
    directory,  \* the account's machines, in the order ListMachines returns them
    last,       \* the most recent Instances call: arguments, results, directory calls
    boot,       \* the registration callback: its position, inputs and results
    procs       \* the calls in progress, one per calling goroutine

vars == <<Metadata, directory, last, boot, procs>>

----------------------------------------------------------------------------
(* Bounds of the model *)

MaxMachines == 2

(* Machine ids are unique within the account: the i-th machine has IdSeq[i] *)
IdSeq == <<"a1", "b2", "c3", "d4">>

PrimaryIPs == {"10.0.0.1", ""}
HostNames  == {"node-a", "10.0.0.1"}
States     == {"running", "stopped"}
BrandSeq   == <<"lx", "kvm", "lx", "kvm">>

(* identifiers the orchestrator passes in *)
ServerNames == {"10.0.0.1", "node-a", "b2", "nonexistent"}
Filters     == {"", ".*"}

LocalUUIDs  == {"a1", "b2"}

----------------------------------------------------------------------------
(* Error values *)

NoError          == "nil"
NetworkFailure   == "NetworkFailure"     \* the client's transport error
ResourceNotFound == "ResourceNotFound"   \* GetMachine on an id the account lacks
NoMachineFound   == "NoMachineFound"     \* fmt.Errorf("No machine found by serverName: %s")
InstanceNotFound == "InstanceNotFound"   \* cloudprovider.InstanceNotFound

(* a nil *triton.Machine *)
NilMachine == [ID |-> "", PrimaryIP |-> "", Name |-> "", State |-> "", Brand |-> "", isNil |-> TRUE]

(* the fields of a machine that vary freely; its id and brand go by its
   place in the account, so that neighbours differ in both *)
MachineFields == [PrimaryIP : PrimaryIPs, Name : HostNames, State : States]

MkMachine(i, f) ==
    [ID |-> IdSeq[i], PrimaryIP |-> f.PrimaryIP, Name |-> f.Name, State |-> f.State,
     Brand |-> BrandSeq[i], isNil |-> FALSE]

Directories ==
    UNION { { [i \in 1..n |-> MkMachine(i, f[i])] : f \in [1..n -> MachineFields] }
            : n \in 0..MaxMachines }

Metadatas ==
    UNION { { [UUID |-> u, Hostname |-> h] : h \in {"node-a", u} } : u \in LocalUUIDs }

----------------------------------------------------------------------------
(* The Triton client: Machines().GetMachine and Machines().ListMachines *)

GetMachine(uuid, netFail) ==
    IF netFail THEN [machine |-> NilMachine, err |-> NetworkFailure]
    ELSE IF \E i \in 1..Len(directory) : directory[i].ID = uuid
         THEN [machine |-> directory[CHOOSE i \in 1..Len(directory) : directory[i].ID = uuid],
               err |-> NoError]
         ELSE [machine |-> NilMachine, err |-> ResourceNotFound]

ListMachines(netFail) ==
    IF netFail THEN [machines |-> <<>>, err |-> NetworkFailure]
    ELSE [machines |-> directory, err |-> NoError]

(* getMachineByUUID returns the triton.Machine for a given UUID *)
getMachineByUUID(uuid, netFail) ==
    LET r == GetMachine(uuid, netFail)
    IN  IF r.err # NoError
        THEN [machine |-> NilMachine, err |-> r.err, gets |-> <<uuid>>]
        ELSE [machine |-> r.machine, err |-> NoError, gets |-> <<uuid>>]

(* a scan that keeps going after a match and returns the last matching record *)
RECURSIVE scanByName_LastMatch(_, _, _)
scanByName_LastMatch(ms, serverName, i) ==
    IF i > Len(ms) THEN [idx |-> 0, examined |-> Len(ms)]
    ELSE LET rest == scanByName_LastMatch(ms, serverName, i + 1)
         IN  IF rest.idx # 0 THEN rest
             ELSE IF ms[i].PrimaryIP = serverName \/ ms[i].Name = serverName
                     \/ ms[i].ID = serverName
             THEN [idx |-> i, examined |-> Len(ms)]
             ELSE rest

(* a scan in two passes: every record's PrimaryIP first, then Name and ID *)
scanByName_IPFirst(ms, serverName, i) ==
    IF \E k \in i..Len(ms) : ms[k].PrimaryIP = serverName
    THEN LET k == CHOOSE k \in i..Len(ms) :
                      /\ ms[k].PrimaryIP = serverName
                      /\ \A j \in i..(k - 1) : ms[j].PrimaryIP # serverName
         IN  [idx |-> k, examined |-> k]
    ELSE IF \E k \in i..Len(ms) : ms[k].Name = serverName \/ ms[k].ID = serverName
    THEN LET k == CHOOSE k \in i..Len(ms) :
                      /\ (ms[k].Name = serverName \/ ms[k].ID = serverName)
                      /\ \A j \in i..(k - 1) : ms[j].Name # serverName /\ ms[j].ID # serverName
         IN  [idx |-> k, examined |-> k]
    ELSE [idx |-> 0, examined |-> Len(ms)]

(* the range loop of getMachineByName from record i on: the index of the
   record returned (0 when the loop ends without one) and the number of
   records examined *)
RECURSIVE scanByName(_, _, _)
scanByName(ms, serverName, i) ==
    IF i > Len(ms) THEN [idx |-> 0, examined |-> Len(ms)]
    ELSE IF ms[i].PrimaryIP = serverName THEN [idx |-> i, examined |-> i]
    ELSE IF ms[i].Name = serverName THEN [idx |-> i, examined |-> i]
    ELSE IF ms[i].ID = serverName THEN [idx |-> i, examined |-> i]
    ELSE scanByName(ms, serverName, i + 1)

getMachineByName(serverName, netFail) ==
    LET l == ListMachines(netFail)
        s == scanByName(l.machines, serverName, 1)
    IN  IF l.err # NoError
        THEN [machine |-> NilMachine, err |-> l.err, lists |-> 1, examined |-> 0]
        ELSE IF s.idx # 0
        THEN [machine |-> l.machines[s.idx], err |-> NoError, lists |-> 1,
              examined |-> s.examined]
        ELSE [machine |-> NilMachine, err |-> NoMachineFound, lists |-> 1,
              examined |-> s.examined]

(* a scan that also compares PrimaryIP, as getMachineByName's does *)
RECURSIVE scanByHostname_WithIP(_, _, _)
scanByHostname_WithIP(ms, hostname, i) ==
    IF i > Len(ms) THEN [idx |-> 0, examined |-> Len(ms)]
    ELSE IF ms[i].PrimaryIP = hostname THEN [idx |-> i, examined |-> i]
    ELSE IF ms[i].Name = hostname THEN [idx |-> i, examined |-> i]
    ELSE IF ms[i].ID = hostname THEN [idx |-> i, examined |-> i]
    ELSE scanByHostname_WithIP(ms, hostname, i + 1)

(* the range loop of getMachineByHostname from record i on *)
RECURSIVE scanByHostname(_, _, _)
scanByHostname(ms, hostname, i) ==
    IF i > Len(ms) THEN [idx |-> 0, examined |-> Len(ms)]
    ELSE IF ms[i].Name = hostname THEN [idx |-> i, examined |-> i]
    ELSE IF ms[i].ID = hostname THEN [idx |-> i, examined |-> i]
    ELSE scanByHostname(ms, hostname, i + 1)

getMachineByHostname(hostname, netFail) ==
    LET l == ListMachines(netFail)
        s == scanByHostname(l.machines, hostname, 1)
    IN  IF l.err # NoError
        THEN [machine |-> NilMachine, err |-> l.err, lists |-> 1, examined |-> 0]
        ELSE IF s.idx # 0
        THEN [machine |-> l.machines[s.idx], err |-> NoError, lists |-> 1,
              examined |-> s.examined]
        ELSE [machine |-> NilMachine, err |-> NoMachineFound, lists |-> 1,
              examined |-> s.examined]

----------------------------------------------------------------------------
(* The three probes.  Each returns the value and error of the Go function,
   and with them the machine record it fetched and the directory calls it
   made. *)

Probe(val, err, machine, gets, lists, examined) ==
    [val |-> val, err |-> err, machine |-> machine, gets |-> gets, lists |-> lists,
     examined |-> examined]

(* probeNodeAddress without the running check on the local machine *)
probeNodeAddress_NoStateCheck(serverName, netFail) ==
    IF Metadata.Hostname = serverName
    THEN LET g == getMachineByUUID(Metadata.UUID, netFail)
         IN  IF g.err # NoError THEN Probe("", g.err, g.machine, g.gets, 0, 0)
             ELSE Probe(g.machine.PrimaryIP, NoError, g.machine, g.gets, 0, 0)
    ELSE LET m == getMachineByName(serverName, netFail)
         IN  IF m.err # NoError THEN Probe("", m.err, m.machine, <<>>, m.lists, m.examined)
             ELSE Probe(m.machine.PrimaryIP, NoError, m.machine, <<>>, m.lists, m.examined)

probeNodeAddress(serverName, netFail) ==
    IF Metadata.Hostname = serverName
    THEN LET g == getMachineByUUID(Metadata.UUID, netFail)
         IN  IF g.err # NoError THEN Probe("", g.err, g.machine, g.gets, 0, 0)
             ELSE IF g.machine.State # "running"
             THEN Probe("", InstanceNotFound, g.machine, g.gets, 0, 0)
             ELSE Probe(g.machine.PrimaryIP, NoError, g.machine, g.gets, 0, 0)
    ELSE LET m == getMachineByName(serverName, netFail)
         IN  IF m.err # NoError THEN Probe("", m.err, m.machine, <<>>, m.lists, m.examined)
             ELSE Probe(m.machine.PrimaryIP, NoError, m.machine, <<>>, m.lists, m.examined)

(* probeMachineUUID that searches the account when the direct get fails *)
probeMachineUUID_FallbackToList(serverName, netFail) ==
    LET g == getMachineByUUID(Metadata.UUID, netFail)
        m == getMachineByName(serverName, netFail)
    IN  IF Metadata.Hostname = serverName /\ g.err = NoError
        THEN IF g.machine.State # "running"
             THEN Probe("", InstanceNotFound, g.machine, g.gets, 0, 0)
             ELSE Probe(g.machine.ID, NoError, g.machine, g.gets, 0, 0)
        ELSE LET gs == IF Metadata.Hostname = serverName THEN g.gets ELSE <<>>
             IN  IF m.err # NoError
                 THEN Probe("", InstanceNotFound, m.machine, gs, m.lists, m.examined)
                 ELSE Probe(m.machine.ID, NoError, m.machine, gs, m.lists, m.examined)

probeMachineUUID(serverName, netFail) ==
    IF Metadata.Hostname = serverName
    THEN LET g == getMachineByUUID(Metadata.UUID, netFail)
         IN  IF g.err # NoError THEN Probe("", g.err, g.machine, g.gets, 0, 0)
             ELSE IF g.machine.State # "running"
             THEN Probe("", InstanceNotFound, g.machine, g.gets, 0, 0)
             ELSE Probe(g.machine.ID, NoError, g.machine, g.gets, 0, 0)
    ELSE LET m == getMachineByName(serverName, netFail)
         IN  IF m.err # NoError
             THEN Probe("", InstanceNotFound, m.machine, <<>>, m.lists, m.examined)
             ELSE Probe(m.machine.ID, NoError, m.machine, <<>>, m.lists, m.examined)

(* probeMachineBrand with the running check applied to every machine *)
probeMachineBrand_StateCheckAll(serverName, netFail) ==
    IF Metadata.Hostname = serverName
    THEN LET g == getMachineByUUID(Metadata.UUID, netFail)
         IN  IF g.err # NoError THEN Probe("", g.err, g.machine, g.gets, 0, 0)
             ELSE IF g.machine.State # "running"
             THEN Probe("", InstanceNotFound, g.machine, g.gets, 0, 0)
             ELSE Probe(g.machine.Brand, NoError, g.machine, g.gets, 0, 0)
    ELSE LET m == getMachineByName(serverName, netFail)
         IN  IF m.err # NoError THEN Probe("", m.err, m.machine, <<>>, m.lists, m.examined)
             ELSE IF m.machine.State # "running"
             THEN Probe("", InstanceNotFound, m.machine, <<>>, m.lists, m.examined)
             ELSE Probe(m.machine.Brand, NoError, m.machine, <<>>, m.lists, m.examined)

probeMachineBrand(serverName, netFail) ==
    IF Metadata.Hostname = serverName
    THEN LET g == getMachineByUUID(Metadata.UUID, netFail)
         IN  IF g.err # NoError THEN Probe("", g.err, g.machine, g.gets, 0, 0)
             ELSE IF g.machine.State # "running"
             THEN Probe("", InstanceNotFound, g.machine, g.gets, 0, 0)
             ELSE Probe(g.machine.Brand, NoError, g.machine, g.gets, 0, 0)
    ELSE LET m == getMachineByName(serverName, netFail)
         IN  IF m.err # NoError THEN Probe("", m.err, m.machine, <<>>, m.lists, m.examined)
             ELSE Probe(m.machine.Brand, NoError, m.machine, <<>>, m.lists, m.examined)

----------------------------------------------------------------------------
(* net.ParseIP(ip).String(): the canonical text of a valid IP literal, and
   "<nil>" (the String of a nil IP) for anything ParseIP rejects, the empty
   string included *)
CanonicalIPs == {"10.0.0.1", "10.0.0.2"}

ParseIPString(ip) == IF ip \in CanonicalIPs THEN ip ELSE "<nil>"

NodeLegacyHostIP == "LegacyHostIP"
NodeInternalIP   == "InternalIP"
NodeExternalIP   == "ExternalIP"

nodeAddresses(parsedIP) ==
    << [Type |-> NodeLegacyHostIP, Address |-> parsedIP],
       [Type |-> NodeInternalIP,   Address |-> parsedIP],
       [Type |-> NodeExternalIP,   Address |-> parsedIP] >>

(* names := make([]types.NodeName, len(machines)): len(machines) zero values *)
makeNames(n) == [i \in 1..n |-> ""]

(* for _, machine := range machines { names = append(names, machine.ID) } *)
RECURSIVE appendIDs(_, _, _)
appendIDs(names, ms, i) ==
    IF i > Len(ms) THEN names
    ELSE appendIDs(Append(names, ms[i].ID), ms, i + 1)

----------------------------------------------------------------------------
(* Startup: readConfig, initMetadata, newTriton *)

MaxLines == 4

(* the gcfg keys of Config.Global, and a key Config has no field for *)
ConfigKeys   == {"key-id", "key-path", "endpoint-url", "account"}
UnknownKeys  == {"region"}
ConfigValues == {"testuser", "/etc/kubernetes/api_key"}

ConfigLines == [key : ConfigKeys \cup UnknownKeys, value : ConfigValues]

(* an io.Reader: nil, or the variable lines of a [Global] section, each key
   at most once *)
NilReader == [isNil |-> TRUE, lines |-> <<>>]

Readers ==
    {NilReader} \cup
    { [isNil |-> FALSE, lines |-> l] :
        l \in { q \in UNION { [1..n -> ConfigLines] : n \in 0..MaxLines } :
                  \A i, j \in 1..Len(q) : i # j => q[i].key # q[j].key } }

(* Config{} *)
EmptyConfig == [Global |-> [KeyID |-> "", KeyPath |-> "", EndpointURL |-> "", AccountName |-> ""]]

NoConfigGiven == "no Triton cloud provider config file given"
GcfgError     == "gcfg: can't store data"

(* the field tags of the first version of Config: `gcfg:"endpoint"` *)
gcfgSet_EndpointTag(cfg, key, value) ==
    CASE key = "key-id"   -> [cfg |-> [cfg EXCEPT !.Global.KeyID = value], err |-> NoError]
      [] key = "key-path" -> [cfg |-> [cfg EXCEPT !.Global.KeyPath = value], err |-> NoError]
      [] key = "endpoint" -> [cfg |-> [cfg EXCEPT !.Global.EndpointURL = value], err |-> NoError]
      [] key = "account"  -> [cfg |-> [cfg EXCEPT !.Global.AccountName = value], err |-> NoError]
      [] OTHER            -> [cfg |-> cfg, err |-> GcfgError]

(* gcfg stores a variable in the field of Config.Global whose tag is the
   variable's name, and reports a variable no field is tagged with *)
gcfgSet(cfg, key, value) ==
    CASE key = "key-id"       -> [cfg |-> [cfg EXCEPT !.Global.KeyID = value], err |-> NoError]
      [] key = "key-path"     -> [cfg |-> [cfg EXCEPT !.Global.KeyPath = value], err |-> NoError]
      [] key = "endpoint-url" -> [cfg |-> [cfg EXCEPT !.Global.EndpointURL = value], err |-> NoError]
      [] key = "account"      -> [cfg |-> [cfg EXCEPT !.Global.AccountName = value], err |-> NoError]
      [] OTHER                -> [cfg |-> cfg, err |-> GcfgError]

(* gcfg.ReadInto(&cfg, config) from line i on *)
RECURSIVE ReadInto(_, _, _, _)
ReadInto(cfg, err, lines, i) ==
    IF i > Len(lines) THEN [cfg |-> cfg, err |-> err]
    ELSE LET r == gcfgSet(cfg, lines[i].key, lines[i].value)
         IN  ReadInto(r.cfg, IF err # NoError THEN err ELSE r.err, lines, i + 1)

readConfig(config) ==
    IF config.isNil
    THEN [cfg |-> EmptyConfig, err |-> NoConfigGiven]
    ELSE ReadInto(EmptyConfig, NoError, config.lines, 1)

(* one run of /usr/sbin/mdata-get under its 400ms context: it exits with
   its output, exits with an error, or is killed at the deadline *)
ProbeStatuses == {"ok", "failed", "timeout"}
HostnameOutputs == {"node-a", "node-b"}

NoProbe == [status |-> "none", out |-> ""]

UUIDProbes ==
    { [status |-> "ok", out |-> u] : u \in LocalUUIDs }
        \cup { [status |-> st, out |-> ""] : st \in ProbeStatuses \ {"ok"} }

HostnameProbes ==
    { [status |-> "ok", out |-> h] : h \in HostnameOutputs }
        \cup { [status |-> st, out |-> ""] : st \in ProbeStatuses \ {"ok"} }

(* a nil *Metadata *)
NilMetadata == [UUID |-> "", Hostname |-> "", isNil |-> TRUE]

MdataError == "mdata-get"

(* initMetadata that gives up when the host name probe fails *)
initMetadata_HostnameRequired(uuidProbe, hostProbe) ==
    IF uuidProbe.status # "ok" \/ hostProbe.status # "ok"
    THEN [metadata |-> NilMetadata, err |-> MdataError, uuidRuns |-> 1,
          hostRuns |-> IF uuidProbe.status # "ok" THEN 0 ELSE 1]
    ELSE [metadata |-> [UUID |-> uuidProbe.out, Hostname |-> hostProbe.out],
          err |-> NoError, uuidRuns |-> 1, hostRuns |-> 1]

(* initMetadata, with the number of times it ran each probe *)
initMetadata(uuidProbe, hostProbe) ==
    IF uuidProbe.status # "ok"
    THEN [metadata |-> NilMetadata, err |-> MdataError, uuidRuns |-> 1, hostRuns |-> 0]
    ELSE [metadata |-> [UUID |-> uuidProbe.out,
                        Hostname |-> IF hostProbe.status = "ok" THEN hostProbe.out
                                     ELSE uuidProbe.out],
          err |-> NoError, uuidRuns |-> 1, hostRuns |-> 1]

Boot(pc, reader, cfg, err, uuidProbe, hostProbe, md) ==
    [pc |-> pc, reader |-> reader, cfg |-> cfg, err |-> err, uuidProbe |-> uuidProbe,
     hostProbe |-> hostProbe, metadata |-> md.metadata, metaErr |-> md.err,
     uuidRuns |-> md.uuidRuns, hostRuns |-> md.hostRuns]

NotProbed == [metadata |-> NilMetadata, err |-> NoError, uuidRuns |-> 0, hostRuns |-> 0]

BootAt(pc) == Boot(pc, NilReader, EmptyConfig, NoError, NoProbe, NoProbe, NotProbed)

(* the callback has returned the provider; nothing of it is kept *)
Constructed == [pc |-> "ready"]

----------------------------------------------------------------------------
(* The record of a call *)

Call(op, name, netFail, p, addrs, names) ==
    [op |-> op, name |-> name, netFail |-> netFail, val |-> p.val, err |-> p.err,
     machine |-> p.machine, gets |-> p.gets, lists |-> p.lists, examined |-> p.examined,
     addrs |-> addrs, names |-> names]

NoCall == Call("none", "", FALSE, Probe("", NoError, NilMachine, <<>>, 0, 0), <<>>, <<>>)

(* goroutines calling into Instances *)
NumProcs == 2

Procs == 1..NumProcs

IdleProc == [pc |-> "idle"]

IdleProcs == [p \in Procs |-> IdleProc]

Init ==
    /\ Metadata \in Metadatas
    /\ directory \in Directories
    /\ last = NoCall
    /\ boot = Constructed
    /\ procs = IdleProcs

NodeAddresses(name, netFail) ==
    LET p == probeNodeAddress(name, netFail)
    IN  /\ last' = IF p.err # NoError
                   THEN Call("NodeAddresses", name, netFail, p, <<>>, <<>>)
                   ELSE Call("NodeAddresses", name, netFail, p,
                             nodeAddresses(ParseIPString(p.val)), <<>>)
        /\ UNCHANGED <<Metadata, directory, boot, procs>>

ExternalID(name, netFail) ==
    /\ last' = Call("ExternalID", name, netFail, probeMachineUUID(name, netFail), <<>>, <<>>)
    /\ UNCHANGED <<Metadata, directory, boot, procs>>

InstanceID(name, netFail) ==
    /\ last' = Call("InstanceID", name, netFail, probeMachineUUID(name, netFail), <<>>, <<>>)
    /\ UNCHANGED <<Metadata, directory, boot, procs>>

InstanceType(name, netFail) ==
    /\ last' = Call("InstanceType", name, netFail, probeMachineBrand(name, netFail), <<>>, <<>>)
    /\ UNCHANGED <<Metadata, directory, boot, procs>>

List(filter, netFail) ==
    LET l == ListMachines(netFail)
    IN  /\ last' = IF l.err # NoError
                   THEN Call("List", filter, netFail,
                             Probe("", l.err, NilMachine, <<>>, 1, 0), <<>>, <<>>)
                   ELSE Call("List", filter, netFail,
                             Probe("", NoError, NilMachine, <<>>, 1, Len(l.machines)), <<>>,
                             appendIDs(makeNames(Len(l.machines)), l.machines, 1))
        /\ UNCHANGED <<Metadata, directory, boot, procs>>

CurrentNodeName(hostname, netFail) ==
    LET m == getMachineByHostname(hostname, netFail)
    IN  /\ last' = IF m.err # NoError
                   THEN Call("CurrentNodeName", hostname, netFail,
                             Probe("", m.err, m.machine, <<>>, m.lists, m.examined), <<>>, <<>>)
                   ELSE Call("CurrentNodeName", hostname, netFail,
                             Probe(m.machine.ID, NoError, m.machine, <<>>, m.lists, m.examined),
                             <<>>, <<>>)
        /\ UNCHANGED <<Metadata, directory, boot, procs>>

Next ==
    \/ \E name \in ServerNames, netFail \in BOOLEAN : NodeAddresses(name, netFail)
    \/ \E name \in ServerNames, netFail \in BOOLEAN : ExternalID(name, netFail)
    \/ \E name \in ServerNames, netFail \in BOOLEAN : InstanceID(name, netFail)
    \/ \E name \in ServerNames, netFail \in BOOLEAN : InstanceType(name, netFail)
    \/ \E filter \in Filters, netFail \in BOOLEAN : List(filter, netFail)
    \/ \E hostname \in ServerNames, netFail \in BOOLEAN : CurrentNodeName(hostname, netFail)

Spec == Init /\ [][Next]_vars

----------------------------------------------------------------------------
(* The registration callback of init(): readConfig(config), then
   newTriton(cfg).  log.Fatal ends the process (pc "fatal"); a returned
   error ends the callback (pc "failed"). *)

(* the local machine is in the account, or it is not *)
StartupDirectories ==
    { d \in Directories : Len(d) <= 1 /\ \A i \in 1..Len(d) : d[i].Name = "node-a" /\ d[i].Brand = "lx" }

InitStartup ==
    /\ Metadata = NilMetadata
    /\ directory \in StartupDirectories
    /\ last = NoCall
    /\ boot = BootAt("registered")
    /\ procs = IdleProcs

ReadConfig(config) ==
    /\ boot.pc = "registered"
    /\ LET r == readConfig(config)
       IN  boot' = Boot(IF r.err # NoError THEN "failed" ELSE "configured", config, r.cfg,
                        r.err, NoProbe, NoProbe, NotProbed)
    /\ UNCHANGED <<Metadata, directory, last, procs>>

NewTriton(keyFileOk, signerOk, clientOk, uuidProbe, hostProbe, netFail) ==
    /\ boot.pc = "configured"
    /\ LET md == initMetadata(uuidProbe, hostProbe)
           ranHost == IF md.hostRuns = 0 THEN NoProbe ELSE hostProbe
           localhost == GetMachine(md.metadata.UUID, netFail)
       IN  IF ~keyFileOk
           THEN /\ boot' = Boot("failed", boot.reader, boot.cfg, "ReadFile", NoProbe, NoProbe,
                                NotProbed)
                /\ UNCHANGED Metadata
           ELSE IF ~signerOk \/ ~clientOk
           THEN /\ boot' = Boot("fatal", boot.reader, boot.cfg,
                                IF ~signerOk THEN "NewPrivateKeySigner" ELSE "NewClient",
                                NoProbe, NoProbe, NotProbed)
                /\ UNCHANGED Metadata
           ELSE IF md.err # NoError
           THEN /\ boot' = Boot("fatal", boot.reader, boot.cfg, "initMetadata", uuidProbe,
                                ranHost, md)
                /\ UNCHANGED Metadata
           ELSE IF localhost.err # NoError
           THEN /\ boot' = Boot("fatal", boot.reader, boot.cfg, "GetMachineInput for localhost",
                                uuidProbe, ranHost, md)
                /\ UNCHANGED Metadata
           ELSE /\ boot' = Boot("ready", boot.reader, boot.cfg, NoError, uuidProbe, ranHost, md)
                /\ Metadata' = md.metadata
    /\ UNCHANGED <<directory, last, procs>>

NextStartup ==
    \/ \E config \in Readers : ReadConfig(config)
    \/ \E keyFileOk, signerOk, clientOk, netFail \in BOOLEAN,
          uuidProbe \in UUIDProbes, hostProbe \in HostnameProbes :
            NewTriton(keyFileOk, signerOk, clientOk, uuidProbe, hostProbe, netFail)

SpecStartup == InitStartup /\ [][NextStartup]_vars

----------------------------------------------------------------------------
(* Calls from several goroutines.  A call reads Metadata and sends its one
   request to the directory (Invoke); other goroutines run until the reply
   arrives and the call returns (Complete). *)

ConcurrentNames == {"node-a", "10.0.0.1"}

ConcurrentCalls ==
    { [op |-> op, name |-> name] :
        op \in {"NodeAddresses", "ExternalID", "InstanceID", "InstanceType"},
        name \in ConcurrentNames }
    \cup { [op |-> "List", name |-> ""] }

(* the two machines of an account: node-a at 10.0.0.1, and a second one named
   10.0.0.1 that has no address; either may be running or stopped *)
ConcurrentDirectories ==
    { d \in Directories :
        /\ Len(d) = 2
        /\ d[1].Name = "node-a" /\ d[1].PrimaryIP = "10.0.0.1" /\ d[1].Brand = "lx"
        /\ d[2].Name = "10.0.0.1" /\ d[2].PrimaryIP = "" /\ d[2].Brand = "kvm" }

(* the part of a probe after `Metadata.Hostname == serverName` was evaluated
   and, on the self path, Metadata.UUID read *)
resolve(op, serverName, isSelf, uuid, netFail) ==
    LET field(m) == CASE op = "NodeAddresses" -> m.PrimaryIP
                      [] op \in {"ExternalID", "InstanceID"} -> m.ID
                      [] op = "InstanceType" -> m.Brand
    IN  IF isSelf
        THEN LET g == getMachineByUUID(uuid, netFail)
             IN  IF g.err # NoError THEN Probe("", g.err, g.machine, g.gets, 0, 0)
                 ELSE IF g.machine.State # "running"
                 THEN Probe("", InstanceNotFound, g.machine, g.gets, 0, 0)
                 ELSE Probe(field(g.machine), NoError, g.machine, g.gets, 0, 0)
        ELSE LET m == getMachineByName(serverName, netFail)
             IN  IF m.err # NoError
                 THEN Probe("", IF op \in {"ExternalID", "InstanceID"}
                                THEN InstanceNotFound ELSE m.err,
                            m.machine, <<>>, m.lists, m.examined)
                 ELSE Probe(field(m.machine), NoError, m.machine, <<>>, m.lists, m.examined)

(* what the public method returns, given its probe's return *)
returned(op, name, netFail, p) ==
    IF op = "NodeAddresses" /\ p.err = NoError
    THEN Call(op, name, netFail, p, nodeAddresses(ParseIPString(p.val)), <<>>)
    ELSE Call(op, name, netFail, p, <<>>, <<>>)

listed(filter, netFail) ==
    LET l == ListMachines(netFail)
    IN  IF l.err # NoError
        THEN Call("List", filter, netFail, Probe("", l.err, NilMachine, <<>>, 1, 0), <<>>, <<>>)
        ELSE Call("List", filter, netFail,
                  Probe("", NoError, NilMachine, <<>>, 1, Len(l.machines)), <<>>,
                  appendIDs(makeNames(Len(l.machines)), l.machines, 1))

InitConcurrent ==
    /\ Metadata \in Metadatas
    /\ directory \in ConcurrentDirectories
    /\ last = NoCall
    /\ boot = Constructed
    /\ procs = IdleProcs

Invoke(p, op, name) ==
    /\ procs[p].pc \in {"idle", "done"}
    /\ LET isSelf == op # "List" /\ Metadata.Hostname = name
       IN  procs' = [procs EXCEPT ![p] =
                        [pc |-> "waiting", isSelf |-> isSelf,
                         uuid |-> IF isSelf THEN Metadata.UUID ELSE "",
                         call |-> Call(op, name, FALSE,
                                       Probe("", NoError, NilMachine, <<>>, 0, 0), <<>>, <<>>)]]
    /\ UNCHANGED <<Metadata, directory, last, boot>>

(* a Complete that keeps the machine it resolved as the provider's identity *)
Complete_CachesIdentity(p, netFail) ==
    /\ procs[p].pc = "waiting"
    /\ LET c == procs[p].call
           r == IF c.op = "List" THEN listed(c.name, netFail)
                ELSE returned(c.op, c.name, netFail,
                              resolve(c.op, c.name, procs[p].isSelf, procs[p].uuid, netFail))
       IN  /\ procs' = [procs EXCEPT ![p] = [@ EXCEPT !.pc = "done", !.call = r]]
           /\ Metadata' = IF r.machine.isNil THEN Metadata
                          ELSE [UUID |-> r.machine.ID, Hostname |-> c.name]
    /\ UNCHANGED <<directory, last, boot>>

Complete(p, netFail) ==
    /\ procs[p].pc = "waiting"
    /\ LET c == procs[p].call
           r == IF c.op = "List" THEN listed(c.name, netFail)
                ELSE returned(c.op, c.name, netFail,
                              resolve(c.op, c.name, procs[p].isSelf, procs[p].uuid, netFail))
       IN  procs' = [procs EXCEPT ![p] = [@ EXCEPT !.pc = "done", !.call = r]]
    /\ UNCHANGED <<Metadata, directory, last, boot>>

NextConcurrent ==
    \/ \E p \in Procs, c \in ConcurrentCalls : Invoke(p, c.op, c.name)
    \/ \E p \in Procs, netFail \in BOOLEAN : Complete(p, netFail)

SpecConcurrent == InitConcurrent /\ [][NextConcurrent]_vars

----------------------------------------------------------------------------
(* Vocabulary of the properties *)

ResolveOps == {"NodeAddresses", "ExternalID", "InstanceID", "InstanceType"}

IdentityOps == {"ExternalID", "InstanceID"}

IsSelfCall == last.op \in ResolveOps /\ last.name = Metadata.Hostname

IsPeerCall == last.op \in ResolveOps /\ last.name # Metadata.Hostname

Matches(m, name) == m.PrimaryIP = name \/ m.Name = name \/ m.ID = name

MatchesByIP(m, name) == m.PrimaryIP = name

MatchesByNameOrID(m, name) == m.Name = name \/ m.ID = name

FirstIndex(P(_)) ==
    CHOOSE i \in 1..Len(directory) : P(directory[i]) /\ \A j \in 1..(i - 1) : ~P(directory[j])

(* the call returned nothing but its error *)
NoResult == last.val = "" /\ last.addrs = <<>> /\ last.names = <<>>

(* the identifier is the primaryIP of one machine and the hostName or id of
   another machine that it does not match by primaryIP *)
Collision ==
    \E i, j \in 1..Len(directory) :
        /\ i # j
        /\ MatchesByIP(directory[i], last.name)
        /\ MatchesByNameOrID(directory[j], last.name)
        /\ ~MatchesByIP(directory[j], last.name)

----------------------------------------------------------------------------
(* C1: a NodeAddresses, ExternalID, InstanceID or InstanceType call whose
   identifier equals Metadata.Hostname makes exactly one GetMachine call,
   for Metadata.UUID, and no ListMachines call, whatever the get returns. *)
C1_SelfFastPath ==
    IsSelfCall => last.gets = <<Metadata.UUID>> /\ last.lists = 0

(* C1 witness: a self ExternalID call whose direct get failed *)
C1_Witness ==
    /\ last.op = "ExternalID" /\ IsSelfCall
    /\ last.machine.isNil /\ last.err \in {NetworkFailure, ResourceNotFound}

(* C2: a call for an identifier other than Metadata.Hostname makes exactly
   one ListMachines call and no GetMachine call, and when it succeeds the
   record it resolved matches the identifier on primaryIP, hostName or id
   while no record earlier in the enumeration matches on any of the three. *)
C2_PeerFirstMatch ==
    IsPeerCall =>
        /\ last.lists = 1
        /\ last.gets = <<>>
        /\ last.err = NoError =>
              \E i \in 1..Len(directory) :
                  /\ last.machine = directory[i]
                  /\ Matches(directory[i], last.name)
                  /\ \A j \in 1..(i - 1) : ~Matches(directory[j], last.name)

(* C2 witness: a successful peer call with two matching records, the second
   of which was not returned *)
C2_Witness ==
    /\ IsPeerCall /\ last.err = NoError
    /\ Len(directory) >= 2
    /\ Matches(directory[1], last.name) /\ Matches(directory[2], last.name)
    /\ last.machine = directory[1]

(* C3 as stated: when the identifier is the primaryIP of one machine and the
   hostName or id of another, a successful peer resolution returns the
   machine matched by primaryIP, whatever the order of the two. *)
C3_IPAlwaysWins ==
    (IsPeerCall /\ last.err = NoError /\ Collision) => MatchesByIP(last.machine, last.name)

(* C3 amended: in that case a successful peer resolution returns whichever of
   the first primaryIP match and the first hostName-or-id match comes first in
   the enumeration; the primaryIP match is returned only when it is earlier. *)
C3_EarlierOfTheTwoWins ==
    (IsPeerCall /\ last.err = NoError /\ Collision) =>
        LET ip == FirstIndex(LAMBDA m : MatchesByIP(m, last.name))
            nm == FirstIndex(LAMBDA m : MatchesByNameOrID(m, last.name)
                                         /\ ~MatchesByIP(m, last.name))
        IN  last.machine = IF ip < nm THEN directory[ip] ELSE directory[nm]

(* C3 witness: the hostName match precedes the primaryIP match and is the
   record returned *)
C3_Witness ==
    /\ IsPeerCall /\ last.err = NoError /\ Collision
    /\ ~MatchesByIP(last.machine, last.name)
    /\ last.machine.Name = last.name

(* C4 as stated: when the directory call of NodeAddresses, ExternalID,
   InstanceID, InstanceType or List fails with a network failure, the call
   returns that failure and no result, never InstanceNotFound. *)
C4_NetworkFailurePropagates ==
    (last.op \in ResolveOps \cup {"List"} /\ last.netFail) =>
        last.err = NetworkFailure /\ NoResult

(* C5 as stated: for an identifier that is not the local host name and
   matches no record of an enumeration of N records, each of the four calls
   examines all N records and fails with InstanceNotFound and no result. *)
C5_NoMatchIsInstanceNotFound ==
    (IsPeerCall /\ ~last.netFail
        /\ \A i \in 1..Len(directory) : ~Matches(directory[i], last.name)) =>
        /\ last.examined = Len(directory)
        /\ last.err = InstanceNotFound
        /\ NoResult

(* C6 as stated: ExternalID and InstanceID on an identifier, self or peer,
   that resolves to a record whose state is not "running" return
   ("", InstanceNotFound); they return the id only for a running record. *)
C6_IdentityNeedsRunning ==
    (last.op \in IdentityOps /\ ~last.machine.isNil) =>
        IF last.machine.State # "running"
        THEN last.val = "" /\ last.err = InstanceNotFound
        ELSE last.val = last.machine.ID /\ last.err = NoError

(* C7 as stated: InstanceType on an identifier, self or peer, that resolves
   to a record returns that record's brand whatever the record's state. *)
C7_ClassIgnoresState ==
    (last.op = "InstanceType" /\ ~last.machine.isNil) =>
        last.err = NoError /\ last.val = last.machine.Brand

(* C7 amended: InstanceType on a peer identifier that resolves to a record
   returns that record's brand whatever its state; on the local host name it
   returns the brand only when the record is running and fails with
   InstanceNotFound otherwise. *)
C7_ClassIgnoresStateOfPeers ==
    (last.op = "InstanceType" /\ ~last.machine.isNil) =>
        IF IsPeerCall \/ last.machine.State = "running"
        THEN last.err = NoError /\ last.val = last.machine.Brand
        ELSE last.err = InstanceNotFound /\ last.val = ""

(* C7 witness: InstanceType succeeded on a peer that is not running *)
C7_Witness ==
    /\ last.op = "InstanceType" /\ IsPeerCall
    /\ ~last.machine.isNil /\ last.machine.State # "running"
    /\ last.err = NoError /\ last.val = last.machine.Brand

(* C8: on the self path, when the direct get returns a record that is not
   running, the call fails with InstanceNotFound, returns nothing from the
   record and makes no ListMachines call. *)
C8_NonRunningSelfNotReported ==
    (IsSelfCall /\ ~last.machine.isNil /\ last.machine.State # "running") =>
        /\ last.err = InstanceNotFound
        /\ NoResult
        /\ last.lists = 0

(* C8 witness: NodeAddresses on the local host name, whose record exists and
   is stopped *)
C8_Witness ==
    /\ last.op = "NodeAddresses" /\ IsSelfCall
    /\ ~last.machine.isNil /\ last.machine.State = "stopped"
    /\ last.machine.ID = Metadata.UUID

(* C9 as stated: when ListMachines succeeds with N records, List returns
   exactly N identifiers, the i-th being the id of the i-th record, with no
   additional or empty entries. *)
C9_ListReturnsTheIDs ==
    (last.op = "List" /\ ~last.netFail) =>
        /\ last.err = NoError
        /\ Len(last.names) = Len(directory)
        /\ \A i \in 1..Len(last.names) : last.names[i] = directory[i].ID /\ last.names[i] # ""

(* C10 as stated: NodeAddresses on an identifier that resolves returns exactly
   three entries, of kinds legacy-host IP, internal IP and external IP in that
   order, each with the resolved record's primary IP as its value. *)
C10_ThreeAddressesOfPrimaryIP ==
    (last.op = "NodeAddresses" /\ last.err = NoError) =>
        /\ Len(last.addrs) = 3
        /\ last.addrs[1].Type = NodeLegacyHostIP
        /\ last.addrs[2].Type = NodeInternalIP
        /\ last.addrs[3].Type = NodeExternalIP
        /\ \A i \in 1..3 : last.addrs[i].Address = last.machine.PrimaryIP

(* C14: CurrentNodeName(hostname) makes exactly one ListMachines call and no
   GetMachine call, and returns the id of the first record of the enumeration
   whose host name or id equals hostname, whatever that record's state and
   primaryIP and whatever the cached Metadata; when the enumeration fails or
   no record has that host name or id it returns an empty name and an error. *)
C14_CurrentNodeNameByHostnameOrID ==
    last.op = "CurrentNodeName" =>
        /\ last.lists = 1
        /\ last.gets = <<>>
        /\ IF ~last.netFail
              /\ \E i \in 1..Len(directory) : MatchesByNameOrID(directory[i], last.name)
           THEN /\ last.err = NoError
                /\ last.val = directory[FirstIndex(LAMBDA m : MatchesByNameOrID(m, last.name))].ID
           ELSE last.val = "" /\ last.err # NoError

(* C14 witness: the first record has hostname as its primaryIP only and is
   passed over for a later, stopped record named hostname *)
C14_Witness ==
    /\ last.op = "CurrentNodeName" /\ last.err = NoError
    /\ Len(directory) >= 2
    /\ MatchesByIP(directory[1], last.name)
    /\ ~MatchesByNameOrID(directory[1], last.name)
    /\ last.val = directory[2].ID
    /\ directory[2].State = "stopped"

(* the value a [Global] section gives a key, "" when it has no line for it *)
Provided(lines, key) ==
    IF \E i \in 1..Len(lines) : lines[i].key = key
    THEN lines[CHOOSE i \in 1..Len(lines) : lines[i].key = key].value
    ELSE ""

WellFormed(lines) == \A i \in 1..Len(lines) : lines[i].key \in ConfigKeys

(* C11: initMetadata fails, returning no Metadata and ending startup, exactly
   when the unique-ID probe fails; when that probe succeeds the Metadata has
   UUID equal to its output and Hostname equal to the host-name probe's output
   if that probe succeeded and to the UUID otherwise; neither probe runs more
   than once. *)
C11_InitMetadata ==
    boot.uuidRuns > 0 =>
        /\ (boot.metaErr # NoError) <=> (boot.uuidProbe.status # "ok")
        /\ boot.metaErr # NoError =>
              boot.metadata = NilMetadata /\ boot.pc = "fatal" /\ Metadata = NilMetadata
        /\ boot.metaErr = NoError =>
              /\ boot.metadata.UUID = boot.uuidProbe.out
              /\ boot.metadata.Hostname = IF boot.hostProbe.status = "ok"
                                          THEN boot.hostProbe.out
                                          ELSE boot.uuidProbe.out
              /\ boot.pc = "ready" => Metadata = boot.metadata
        /\ boot.uuidRuns <= 1
        /\ boot.hostRuns <= 1

(* C11 witness: the unique-ID probe succeeded, the host-name probe timed out,
   and the provider was constructed with Hostname equal to UUID *)
C11_Witness ==
    /\ boot.pc = "ready"
    /\ boot.uuidProbe.status = "ok" /\ boot.hostProbe.status = "timeout"
    /\ boot.hostRuns = 1
    /\ Metadata.Hostname = Metadata.UUID /\ Metadata.UUID = boot.uuidProbe.out

(* C13: readConfig given no reader fails with an error and an empty Config;
   given a well-formed [Global] section it succeeds and the Config carries
   exactly the endpoint-url, key-id, key-path and account values provided. *)
C13_ReadConfig ==
    boot.pc # "registered" =>
        /\ boot.reader.isNil =>
              boot.pc = "failed" /\ boot.err = NoConfigGiven /\ boot.cfg = EmptyConfig
        /\ (~boot.reader.isNil /\ WellFormed(boot.reader.lines)) =>
              /\ boot.err \notin {NoConfigGiven, GcfgError}
              /\ boot.cfg.Global.EndpointURL = Provided(boot.reader.lines, "endpoint-url")
              /\ boot.cfg.Global.KeyID = Provided(boot.reader.lines, "key-id")
              /\ boot.cfg.Global.KeyPath = Provided(boot.reader.lines, "key-path")
              /\ boot.cfg.Global.AccountName = Provided(boot.reader.lines, "account")

(* C13 witness: a section with all four keys was read, two of them with
   different values *)
C13_Witness ==
    /\ boot.pc = "configured"
    /\ Len(boot.reader.lines) = 4 /\ WellFormed(boot.reader.lines)
    /\ boot.cfg.Global.AccountName = "testuser"
    /\ boot.cfg.Global.KeyPath = "/etc/kubernetes/api_key"
    /\ boot.cfg.Global.EndpointURL # "" /\ boot.cfg.Global.KeyID # ""

(* the result of a call made with no other call in progress: the probes run
   from start to end on the current Metadata and directory *)
CallAlone(op, name, netFail) ==
    CASE op = "NodeAddresses" -> returned(op, name, netFail, probeNodeAddress(name, netFail))
      [] op \in IdentityOps   -> returned(op, name, netFail, probeMachineUUID(name, netFail))
      [] op = "InstanceType"  -> returned(op, name, netFail, probeMachineBrand(name, netFail))
      [] op = "List"          -> listed(name, netFail)

(* C12: no step of a resolution call writes Metadata or the directory, and so
   under any interleaving of concurrent NodeAddresses, ExternalID, InstanceID,
   InstanceType and List calls every call returns what it returns when run
   alone with the same answer from the directory; a repeated call therefore
   returns the same result again. *)
C12_NoInterference ==
    /\ [][Metadata' = Metadata /\ directory' = directory]_vars
    /\ [](\A p \in Procs :
            procs[p].pc = "done" =>
                procs[p].call = CallAlone(procs[p].call.op, procs[p].call.name,
                                          procs[p].call.netFail))

(* C12 witness: two goroutines have both completed ExternalID on the local
   host name and hold the same successful result *)
C12_Witness ==
    /\ procs[1].pc = "done" /\ procs[2].pc = "done"
    /\ procs[1].call.op = "ExternalID" /\ procs[1].isSelf
    /\ procs[1].call.err = NoError
    /\ procs[2].call = procs[1].call

====
